---------------------------- MODULE Spec2Model ----------------------------
(***************************************************************************)
(* A model of site/app.js, the "Integrator Notes" frontend.                *)
(*                                                                         *)
(* Text is modelled by TLA+ strings, one character per JavaScript code     *)
(* unit, with 1-based positions.  The em-dash U+2014 cannot be written in  *)
(* a TLA+ string; the character "~" stands for it everywhere (EmDash).     *)
(* Dates are day numbers; instants are quarter hours, a date string        *)
(* denoting UTC midnight of its day.  Date.setDate counts calendar         *)
(* days of the local time zone: where the zone's UTC offset changed inside *)
(* the lookback, the cutoff lies off the exact duration by that change,    *)
(* which each call of renderTab draws from ZoneShifts.                     *)
(***************************************************************************)
EXTENDS Integers, Sequences, FiniteSets, TLC

\* ------------------------------------------------------------------------
\* Strings
\* ------------------------------------------------------------------------

\* The stand-in for the em-dash of the separators (app.js:250, 283).
EmDash == "~"

\* s.charAt(i - 1): "" outside the string.
At(s, i) == IF i >= 1 /\ i <= Len(s) THEN SubSeq(s, i, i) ELSE ""

From(s, i) == IF i > Len(s) THEN "" ELSE SubSeq(s, i, Len(s))

\* The characters of \s and of trim() that the model's texts use.
IsWs(c) == c \in {" ", "\n", "\t"}

IsDigit(c) == c \in {"0", "1", "2", "3", "4", "5", "6", "7", "8", "9"}

\* The first position >= i of s that holds no whitespace, Len(s)+1 if none:
\* where a greedy \s* that starts at i ends.
RECURSIVE SkipWs(_, _)
SkipWs(s, i) == IF i <= Len(s) /\ IsWs(At(s, i)) THEN SkipWs(s, i + 1) ELSE i

\* Where a greedy \d* that starts at i ends.
RECURSIVE SkipDigits(_, _)
SkipDigits(s, i) == IF i <= Len(s) /\ IsDigit(At(s, i)) THEN SkipDigits(s, i + 1) ELSE i

\* The last position <= i of s that holds no whitespace, 0 if none.
RECURSIVE SkipWsBack(_, _)
SkipWsBack(s, i) == IF i >= 1 /\ IsWs(At(s, i)) THEN SkipWsBack(s, i - 1) ELSE i

\* String.prototype.trim
Trim(s) ==
    IF SkipWs(s, 1) > Len(s) THEN ""
    ELSE SubSeq(s, SkipWs(s, 1), SkipWsBack(s, Len(s)))

StartsAt(s, i, p) ==
    /\ i >= 1
    /\ i + Len(p) - 1 <= Len(s)
    /\ SubSeq(s, i, i + Len(p) - 1) = p

\* The first position >= i where p occurs in s, 0 if none
\* (String.prototype.indexOf, 1-based, 0 for -1).
IndexOfFrom(s, p, i) ==
    LET hits == {j \in i..Len(s) : StartsAt(s, j, p)}
    IN  IF hits = {} THEN 0
        ELSE CHOOSE j \in hits : \A k \in hits : j <= k

IndexOf(s, p) == IndexOfFrom(s, p, 1)

Contains(s, p) == IndexOf(s, p) # 0

EndsWith(s, p) == Len(p) <= Len(s) /\ StartsAt(s, Len(s) - Len(p) + 1, p)

LowerChar(c) ==
    CASE c = "A" -> "a" [] c = "B" -> "b" [] c = "C" -> "c" [] c = "D" -> "d"
      [] c = "E" -> "e" [] c = "F" -> "f" [] c = "G" -> "g" [] c = "H" -> "h"
      [] c = "I" -> "i" [] c = "J" -> "j" [] c = "K" -> "k" [] c = "L" -> "l"
      [] c = "M" -> "m" [] c = "N" -> "n" [] c = "O" -> "o" [] c = "P" -> "p"
      [] c = "Q" -> "q" [] c = "R" -> "r" [] c = "S" -> "s" [] c = "T" -> "t"
      [] c = "U" -> "u" [] c = "V" -> "v" [] c = "W" -> "w" [] c = "X" -> "x"
      [] c = "Y" -> "y" [] c = "Z" -> "z" [] OTHER -> c

\* String.prototype.toLowerCase, and the /i flag of the regular expressions.
RECURSIVE ToLower(_)
ToLower(s) ==
    IF Len(s) <= 1 THEN LowerChar(s)
    ELSE ToLower(SubSeq(s, 1, Len(s) \div 2))
             \o ToLower(SubSeq(s, Len(s) \div 2 + 1, Len(s)))

\* String.prototype.split with a string separator.
RECURSIVE SplitStr(_, _)
SplitStr(s, sep) ==
    LET i == IndexOf(s, sep)
    IN  IF i = 0 THEN <<s>>
        ELSE <<SubSeq(s, 1, i - 1)>> \o SplitStr(From(s, i + Len(sep)), sep)

\* s.replace(/^-\s*/, "")
StripBullet(s) == IF StartsAt(s, 1, "-") THEN From(s, SkipWs(s, 2)) ELSE s

HasNewline(s) == Contains(s, "\n")

\* The end of the line that position i lies on: the position of the next "\n"
\* at or after i, Len(s)+1 if none.  A greedy .+ that starts at i ends here.
LineEnd(s, i) ==
    LET n == IndexOfFrom(s, "\n", i) IN IF n = 0 THEN Len(s) + 1 ELSE n

\* ------------------------------------------------------------------------
\* parseQuotes (app.js:247-273)
\* ------------------------------------------------------------------------

\* The separators of the quote pattern, in the order the alternation
\* (?:EmDash|--|-) tries them.
QuoteSeps == <<EmDash, "--", "-">>

\* Where the group (.+) starts when the separator ended just before n:
\* the greedy \s* gives back whitespace until "." (any character but a line
\* break) can match.  0 when it cannot.
AttrStart(text, n) ==
    LET p == SkipWs(text, n)
        back == {q \in n..Len(text) : At(text, q) # "\n"}
    IN  IF p <= Len(text) THEN p
        ELSE IF back = {} THEN 0
        ELSE CHOOSE q \in back : \A r \in back : q >= r

\* One attempt of />\s*"([^"]+)"\s*(?:EmDash|--|-)\s*(.+)/ at position i:
\* [ok, text (group 1), attr (group 2), end (the position after the match)].
QuoteMatchAt(text, i) ==
    LET j == SkipWs(text, i + 1)
        k == IndexOfFrom(text, "\"", j + 1)
        m == SkipWs(text, k + 1)
        usable == {x \in 1..Len(QuoteSeps) :
                      /\ StartsAt(text, m, QuoteSeps[x])
                      /\ AttrStart(text, m + Len(QuoteSeps[x])) # 0}
        x == CHOOSE y \in usable : \A z \in usable : y <= z
        q == AttrStart(text, m + Len(QuoteSeps[x]))
    IN  IF /\ At(text, i) = ">"
           /\ j <= Len(text) /\ At(text, j) = "\""
           /\ k > j + 1
           /\ usable # {}
        THEN [ok |-> TRUE, text |-> SubSeq(text, j + 1, k - 1),
              attr |-> SubSeq(text, q, LineEnd(text, q) - 1),
              end |-> LineEnd(text, q)]
        ELSE [ok |-> FALSE, text |-> "", attr |-> "", end |-> 0]

\* attr.match(/^(.+?)\s+(?:team\s+member|team)\s*$/i): the length of group 1
\* (the shortest prefix the rest of the pattern accepts), 0 for no match.
TeamMatch(attr) ==
    LET l == ToLower(attr)
        n == Len(attr)
        fits(k) ==
            LET w == SkipWs(l, k + 1)
                t == w + 4
                u == SkipWs(l, t)
            IN  /\ ~HasNewline(SubSeq(attr, 1, k))
                /\ w > k + 1
                /\ StartsAt(l, w, "team")
                /\ \/ u > t /\ StartsAt(l, u, "member") /\ SkipWs(l, u + 6) = n + 1
                   \/ u = n + 1
        ks == {k \in 1..n : fits(k)}
    IN  IF ks = {} THEN 0 ELSE CHOOSE k \in ks : \A k2 \in ks : k <= k2

\* attr.match(/^(.+?),\s*(.+)$/): [ok, person (group 1), org (group 2)].
CommaMatch(attr) ==
    LET n == Len(attr)
        orgStart(k) ==
            LET p == SkipWs(attr, k + 2)
                qs == {q \in (k + 2)..n : q <= p /\ ~HasNewline(From(attr, q))}
            IN  IF qs = {} THEN 0 ELSE CHOOSE q \in qs : \A r \in qs : q >= r
        ks == {k \in 1..n : /\ ~HasNewline(SubSeq(attr, 1, k))
                            /\ At(attr, k + 1) = ","
                            /\ orgStart(k) # 0}
        k == CHOOSE k1 \in ks : \A k2 \in ks : k1 <= k2
    IN  IF ks = {} THEN [ok |-> FALSE, person |-> "", org |-> ""]
        ELSE [ok |-> TRUE, person |-> SubSeq(attr, 1, k),
              org |-> From(attr, orgStart(k))]

\* QuoteOf with the comma split tried only when the team suffix did not match.
QuoteOf_teamWins(quoteText, attr) ==
    LET tm == TeamMatch(attr)
        cm == CommaMatch(attr)
    IN  IF tm # 0
        THEN [text |-> quoteText, attribution |-> attr, org |-> SubSeq(attr, 1, tm)]
        ELSE [text |-> quoteText,
              attribution |-> IF cm.ok THEN cm.person ELSE attr,
              org |-> IF cm.ok THEN cm.org ELSE ""]

\* The body of the while loop, lines 253-270: one match to one quote.
QuoteOf(quoteText, attr) ==
    LET tm == TeamMatch(attr)
        cm == CommaMatch(attr)
        person1 == attr
        org1 == IF tm # 0 THEN SubSeq(attr, 1, tm) ELSE ""
    IN  [text |-> quoteText,
         attribution |-> IF cm.ok THEN cm.person ELSE person1,
         org |-> IF cm.ok THEN cm.org ELSE org1]

\* regex.exec in a loop (the g flag): the leftmost match at or after `from`,
\* then on from the end of that match.
RECURSIVE QuotesFrom(_, _)
QuotesFrom(text, from) ==
    LET starts == {i \in from..Len(text) : QuoteMatchAt(text, i).ok}
        i == CHOOSE a \in starts : \A b \in starts : a <= b
        mt == QuoteMatchAt(text, i)
    IN  IF starts = {} THEN <<>>
        ELSE <<QuoteOf(Trim(mt.text), Trim(mt.attr))>> \o QuotesFrom(text, mt.end)

parseQuotes(text) == QuotesFrom(text, 1)

\* ------------------------------------------------------------------------
\* Cards (app.js:276-340)
\* ------------------------------------------------------------------------

\* The separators of the title pattern, in the order the alternation
\* (?:EmDash|--|-|:) tries them.
CardSeps == <<EmDash, "--", "-", ":">>

\* line.match(/^\*\*(.+?)\*\*\s*(?:EmDash|--|-|:)\s*/):
\* [ok, title (group 1), len (the length of the whole match)].
TitleMatch(line) ==
    LET sepAt(m) == {x \in 1..Len(CardSeps) : StartsAt(line, m, CardSeps[x])}
        ks == {k \in 1..Len(line) :
                  /\ StartsAt(line, 3 + k, "**")
                  /\ ~HasNewline(SubSeq(line, 3, 2 + k))
                  /\ sepAt(SkipWs(line, 5 + k)) # {}}
        k == CHOOSE k1 \in ks : \A k2 \in ks : k1 <= k2
        m == SkipWs(line, 5 + k)
        x == CHOOSE y \in sepAt(m) : \A z \in sepAt(m) : y <= z
    IN  IF StartsAt(line, 1, "**") /\ ks # {}
        THEN [ok |-> TRUE, title |-> SubSeq(line, 3, 2 + k),
              len |-> SkipWs(line, m + Len(CardSeps[x])) - 1]
        ELSE [ok |-> FALSE, title |-> "", len |-> 0]

\* One attempt of /Mentioned by:\s*(.+?)\.?\s*$/i at a position i of rest
\* where "Mentioned by:" stands, in any case: the set of <<b, k>>, group 1 starting at b with length k, that the pattern
\* accepts.  \s* is greedy (the largest b first), .+? lazy (the smallest k).
MentionFits(rest, i) ==
    LET n == Len(rest)
        a == i + 13
        tailOk(e) == \/ SkipWs(rest, e) = n + 1
                     \/ At(rest, e) = "." /\ SkipWs(rest, e + 1) = n + 1
    IN  {bk \in (a..n) \X (1..n) :
                 /\ bk[1] <= SkipWs(rest, a)
                 /\ bk[1] + bk[2] - 1 <= n
                 /\ ~HasNewline(SubSeq(rest, bk[1], bk[1] + bk[2] - 1))
                 /\ tailOk(bk[1] + bk[2])}

\* rest.match(/Mentioned by:\s*(.+?)\.?\s*$/i):
\* [ok, index (1-based start of the match), mentions (group 1)].
MentionMatch(rest) ==
    LET words == {i \in 1..Len(rest) : LowerChar(At(rest, i)) = "m"
                                          /\ i + 12 <= Len(rest)
                                          /\ ToLower(SubSeq(rest, i, i + 12)) = "mentioned by:"}
        starts == {i \in words : MentionFits(rest, i) # {}}
        i == CHOOSE a \in starts : \A b \in starts : a <= b
        fits == MentionFits(rest, i)
        bk == CHOOSE c \in fits : \A d \in fits :
                  \/ c[1] > d[1]
                  \/ c[1] = d[1] /\ c[2] <= d[2]
    IN  IF starts = {} THEN [ok |-> FALSE, index |-> 0, mentions |-> ""]
        ELSE [ok |-> TRUE, index |-> i,
              mentions |-> SubSeq(rest, bk[1], bk[1] + bk[2] - 1)]

\* Lines 283-298 for one fragment: the cards it adds (one or none).
BulletCard(line) ==
    LET tm == TitleMatch(line)
        rest0 == Trim(From(line, tm.len + 1))
        mm == MentionMatch(rest0)
        rest1 == IF mm.ok THEN Trim(SubSeq(rest0, 1, mm.index - 1)) ELSE rest0
        rest2 == IF EndsWith(rest1, ".") THEN SubSeq(rest1, 1, Len(rest1) - 1)
                 ELSE rest1
    IN  IF tm.ok
        THEN <<[title |-> tm.title, body |-> rest2,
                mentions |-> IF mm.ok THEN mm.mentions ELSE ""]>>
        ELSE IF Len(line) > 10
        THEN <<[title |-> "", body |-> line, mentions |-> ""]>>
        ELSE <<>>

RECURSIVE BulletCardsOf(_)
BulletCardsOf(lines) ==
    IF lines = <<>> THEN <<>>
    ELSE LET line == Trim(StripBullet(Head(lines)))
         IN  (IF line = "" THEN <<>> ELSE BulletCard(line))
                 \o BulletCardsOf(Tail(lines))

parseBulletCards(text) == BulletCardsOf(SplitStr(text, "\n- "))

\* Lines 311-318 and 330-337: a card of parseFrictionCards or parseIdeaCards,
\* which has the fields title and body only.
PlainCard(part) ==
    LET tm == TitleMatch(part)
    IN  IF tm.ok
        THEN <<[title |-> tm.title, body |-> Trim(From(part, tm.len + 1))]>>
        ELSE IF Len(part) > 10
        THEN <<[title |-> "", body |-> part]>>
        ELSE <<>>

\* text.split(/\n(?=- \*\*)/)
RECURSIVE SplitFriction(_)
SplitFriction(text) ==
    LET i == IndexOf(text, "\n- **")
    IN  IF i = 0 THEN <<text>>
        ELSE <<SubSeq(text, 1, i - 1)>> \o SplitFriction(From(text, i + 1))

RECURSIVE FrictionCardsOf(_)
FrictionCardsOf(parts) ==
    IF parts = <<>> THEN <<>>
    ELSE LET part == StripBullet(Trim(Head(parts)))
         IN  (IF part = "" THEN <<>> ELSE PlainCard(part))
                 \o FrictionCardsOf(Tail(parts))

parseFrictionCards(text) == FrictionCardsOf(SplitFriction(text))

RECURSIVE IdeaCardsOf(_)
IdeaCardsOf(lines) ==
    IF lines = <<>> THEN <<>>
    ELSE LET line == Trim(StripBullet(Head(lines)))
         IN  (IF line = "" THEN <<>> ELSE PlainCard(line))
                 \o IdeaCardsOf(Tail(lines))

parseIdeaCards(text) == IdeaCardsOf(SplitStr(text, "\n- "))

\* ------------------------------------------------------------------------
\* parseSummary (app.js:206-244)
\* ------------------------------------------------------------------------

\* One attempt of /^## \d+\.\s*/m at position i of md: the position after
\* the match, 0 for no match.
HeadingEnd(md, i) ==
    LET d == SkipDigits(md, i + 3)
    IN  IF /\ (i = 1 \/ At(md, i - 1) = "\n")
           /\ StartsAt(md, i, "## ")
           /\ d > i + 3
           /\ At(md, d) = "."
        THEN SkipWs(md, d + 1)
        ELSE 0

\* md.split(/^## \d+\.\s*/m) from position p on: the piece up to the
\* leftmost match at or after p, then the pieces after that match.
RECURSIVE SplitHeadings(_, _)
SplitHeadings(md, p) ==
    LET hits == {q \in p..Len(md) : HeadingEnd(md, q) # 0}
        q == CHOOSE a \in hits : \A b \in hits : a <= b
    IN  IF hits = {} THEN <<From(md, p)>>
        ELSE <<SubSeq(md, p, q - 1)>> \o SplitHeadings(md, HeadingEnd(md, q))

\* Lines 227-231: the paragraphs of an insights section.
RECURSIVE InsightsOf(_)
InsightsOf(paragraphs) ==
    IF paragraphs = <<>> THEN <<>>
    ELSE (IF Trim(Head(paragraphs)) = "" THEN <<>> ELSE <<Trim(Head(paragraphs))>>)
             \o InsightsOf(Tail(paragraphs))

EmptySections ==
    [insights |-> <<>>, quotes |-> <<>>, themes |-> <<>>, frictions |-> <<>>,
     ideas |-> <<>>]

\* ParseSection with the themes test moved before the quotes test.
ParseSection_themesFirst(result, piece) ==
    LET section == Trim(piece)
        nl == IndexOf(section, "\n")
        firstLine == ToLower(IF nl = 0 THEN section ELSE SubSeq(section, 1, nl - 1))
        body == Trim(From(section, nl + 1))
    IN  IF section = "" THEN result
        ELSE IF Contains(firstLine, "executive summary") \/ Contains(firstLine, "insight")
        THEN [result EXCEPT !.insights = @ \o InsightsOf(SplitStr(body, "\n\n"))]
        ELSE IF Contains(firstLine, "main themes") \/ Contains(firstLine, "theme")
        THEN [result EXCEPT !.themes = parseBulletCards(body)]
        ELSE IF Contains(firstLine, "notable quotes") \/ Contains(firstLine, "source")
        THEN [result EXCEPT !.quotes = parseQuotes(body)]
        ELSE IF Contains(firstLine, "misunderstanding") \/ Contains(firstLine, "friction")
        THEN [result EXCEPT !.frictions = parseFrictionCards(body)]
        ELSE IF Contains(firstLine, "content idea")
        THEN [result EXCEPT !.ideas = parseIdeaCards(body)]
        ELSE result

\* Lines 219-240, the body of the loop for one piece of the split.
ParseSection(result, piece) ==
    LET section == Trim(piece)
        nl == IndexOf(section, "\n")
        firstLine == ToLower(IF nl = 0 THEN section ELSE SubSeq(section, 1, nl - 1))
        body == Trim(From(section, nl + 1))
    IN  IF section = "" THEN result
        ELSE IF Contains(firstLine, "executive summary") \/ Contains(firstLine, "insight")
        THEN [result EXCEPT !.insights = @ \o InsightsOf(SplitStr(body, "\n\n"))]
        ELSE IF Contains(firstLine, "notable quotes") \/ Contains(firstLine, "source")
        THEN [result EXCEPT !.quotes = parseQuotes(body)]
        ELSE IF Contains(firstLine, "main themes") \/ Contains(firstLine, "theme")
        THEN [result EXCEPT !.themes = parseBulletCards(body)]
        ELSE IF Contains(firstLine, "misunderstanding") \/ Contains(firstLine, "friction")
        THEN [result EXCEPT !.frictions = parseFrictionCards(body)]
        ELSE IF Contains(firstLine, "content idea")
        THEN [result EXCEPT !.ideas = parseIdeaCards(body)]
        ELSE result

RECURSIVE ParseSections(_, _)
ParseSections(result, sections) ==
    IF sections = <<>> THEN result
    ELSE ParseSections(ParseSection(result, Head(sections)), Tail(sections))

parseSummary(md) == ParseSections(EmptySections, SplitHeadings(md, 1))

\* ------------------------------------------------------------------------
\* The page: init, loadSummary, onTabClick, renderTab (app.js:12-203)
\* ------------------------------------------------------------------------

VARIABLES
    pc,            \* where init() stands: "fetching", "failed", "empty", "loading", "done"
    allWeeks,      \* app.js:17
    allSummaries,  \* app.js:18, an object: its properties in the order they were
                   \* added, each [key |-> a week_start, data |-> the document]
    activeTab,     \* app.js:19
    loads,         \* the promise of loadSummary(allWeeks[i]): "pending", "ok", "failed"
    now,           \* the clock that new Date() reads, in quarter hours
    view,          \* what summaryEl and headerMeta show
    lastRender,    \* history of the last call of renderTab: the clock it read,
                   \* the zone shift of its cutoff, and whether every
                   \* loadSummary had settled
    input,         \* the argument of the parsing function under check
    output,        \* its result
    phase          \* "ready" before the call, "parsed" after

vars == <<pc, allWeeks, allSummaries, activeTab, loads, now, view, lastRender,
          input, output, phase>>

pageVars == <<pc, allWeeks, allSummaries, activeTab, loads, now, view, lastRender>>

parseVars == <<input, output, phase>>

\* The number of weeks an index holds at most.
MaxWeeks == 2

\* The quarter hours of one day of 24 hours: the unit of the clock, which
\* every UTC offset in use is a multiple of.
QuartersPerDay == 96

\* The largest change of a zone's UTC offset that is followed, in quarter
\* hours.
MaxZoneShift == 12

\* What the UTC offset of the local time zone may have changed by between
\* the day of the cutoff and now, in quarter hours: 0 in UTC and in zones
\* without clock changes, +4 or -4 where daylight saving time of one hour
\* began or ended in between, +2 or -2 where it is of half an hour, +8 or
\* -8 where it is of two hours, and whatever a change of the zone's
\* standard time amounts to.
ZoneShifts == (0 - MaxZoneShift)..MaxZoneShift

\* The tabs of the tab bar (data-tab): the 7-day and the 28-day view.
Tabs == {"7", "28"}

\* The week descriptors an index may hold.  init takes data.weeks as it
\* comes: two descriptors may carry the same week_start, as the second and
\* the third do.  The fourth has no note_count, and the server answers the
\* file of the third with the JSON value null.
WeekPool ==
    { [week_start |-> 29, week_end |-> 35, note_count |-> 4, file |-> "w5.json"],
      [week_start |-> 22, week_end |-> 28, note_count |-> 6, file |-> "w4.json"],
      [week_start |-> 22, week_end |-> 30, note_count |-> 1, file |-> "w4b.json"],
      [week_start |-> 8, week_end |-> 14, file |-> "w2.json"] }

\* What the server holds under summaries/<file>, as resp.json() decodes it.
ServerDoc(file) ==
    CASE file = "w5.json" ->
           [type |-> "object",
            summary_markdown |->
              "## 1. Insights\nAlpha\n## 3. Themes\n- **Pricing**: Unclear"]
      [] file = "w4.json" ->
           [type |-> "object", summary_markdown |-> "",
            raw_summary |-> "## 2. Sources\n> \"Ship.\" - Dana, Acme"]
      [] file = "w2.json" ->
           [type |-> "object", raw_summary |-> "## 1. Insights\nEpsilon"]
      [] OTHER -> [type |-> "null"]

\* The sequences of at most n elements of S.
RECURSIVE SeqsOf(_, _)
SeqsOf(S, n) ==
    IF n = 0 THEN {<<>>}
    ELSE LET shorter == SeqsOf(S, n - 1)
         IN  shorter \cup
             {Append(q, x) : q \in {r \in shorter : Len(r) = n - 1},
                             x \in S}

NoRepeat(q) == \A i, j \in 1..Len(q) : q[i] = q[j] => i = j

\* The contents summaries/index.json may have (data.weeks): each descriptor
\* at most once, in any order.
Indexes == {q \in SeqsOf(WeekPool, MaxWeeks) : NoRepeat(q)}

\* Array.prototype.sort with (a, b) => new Date(b.week_start) - new Date(a.week_start):
\* newest first, and stable.
RECURSIVE SortNewestFirst(_)
SortNewestFirst(weeks) ==
    IF weeks = <<>> THEN <<>>
    ELSE LET rest == SortNewestFirst(Tail(weeks))
             w == Head(weeks)
             before == {i \in 1..Len(rest) : rest[i].week_start > w.week_start}
         IN  SubSeq(rest, 1, Cardinality(before)) \o <<w>>
                 \o SubSeq(rest, Cardinality(before) + 1, Len(rest))

DigitValue(c) ==
    CASE c = "0" -> 0 [] c = "1" -> 1 [] c = "2" -> 2 [] c = "3" -> 3
      [] c = "4" -> 4 [] c = "5" -> 5 [] c = "6" -> 6 [] c = "7" -> 7
      [] c = "8" -> 8 [] c = "9" -> 9

\* parseInt(tab, 10) of a string of digits.
RECURSIVE ParseInt(_)
ParseInt(s) ==
    IF s = "" THEN 0
    ELSE 10 * ParseInt(SubSeq(s, 1, Len(s) - 1)) + DigitValue(At(s, Len(s)))

\* new Date(dateString): midnight of the day.
DateOf(day) == day * QuartersPerDay

\* Lines 75-76: the instant at the local wall-clock time of t, `days`
\* calendar days earlier; `shift` is the change of the zone's UTC offset
\* between the two.
Cutoff(t, days, shift) == t - days * QuartersPerDay + shift

\* InRange with the boundary left out: a week that ends at the cutoff is dropped.
InRange_strict(w, cutoff) == DateOf(w.week_end) > cutoff

\* The filter of line 79.
InRange(w, cutoff) == DateOf(w.week_end) >= cutoff

\* week.note_count || 0
NoteCount(week) == IF "note_count" \in DOMAIN week THEN week.note_count ELSE 0

\* The property names of the object sums.
Keys(sums) == {sums[i].key : i \in DOMAIN sums}

\* sums[key], for a key the object has.
Lookup(sums, key) == sums[CHOOSE i \in DOMAIN sums : sums[i].key = key].data

\* allSummaries[week_start] is a value that `!data` lets through.
HasData(sums, key) == key \in Keys(sums) /\ Lookup(sums, key).type # "null"

\* data.summary_markdown || data.raw_summary || ""
SummaryText(data) ==
    IF "summary_markdown" \in DOMAIN data /\ data.summary_markdown # ""
    THEN data.summary_markdown
    ELSE IF "raw_summary" \in DOMAIN data /\ data.raw_summary # ""
    THEN data.raw_summary
    ELSE ""

\* parseSummary of each text the server holds, computed once.
ParsedTexts ==
    [md \in {SummaryText(ServerDoc(w.file)) : w \in WeekPool} |-> parseSummary(md)]

\* parseSummary(md) as line 104 calls it, md being a text of the server.
SectionsOf(md) == ParsedTexts[md]

\* merged.<kind>.push(...items)
Push(list, items) == list \o items

\* Lines 98-110, the body of the loop for one week.
MergeSections(merged, week, sections) ==
    [merged EXCEPT
        !.noteCount = @ + NoteCount(week),
        !.insights = Push(@, sections.insights),
        !.quotes = Push(@, sections.quotes),
        !.themes = Push(@, sections.themes),
        !.frictions = Push(@, sections.frictions),
        !.ideas = Push(@, sections.ideas)]

MergeWeek(merged, week, sums) ==
    IF ~HasData(sums, week.week_start) THEN merged
    ELSE MergeSections(merged, week,
                       SectionsOf(SummaryText(Lookup(sums, week.week_start))))

RECURSIVE MergeWeeks(_, _, _)
MergeWeeks(merged, weeks, sums) ==
    IF weeks = <<>> THEN merged
    ELSE MergeWeeks(MergeWeek(merged, Head(weeks), sums), Tail(weeks), sums)

EmptyMerged ==
    [insights |-> <<>>, quotes |-> <<>>, themes |-> <<>>, frictions |-> <<>>,
     ideas |-> <<>>, noteCount |-> 0, meetingCount |-> 0]

\* renderTab looping over the properties of allSummaries, in the order the
\* loads added them, instead of over weeksInRange.
renderTab_cacheOrder(tab, weeks, sums, t, shift) ==
    LET cutoff == Cutoff(t, ParseInt(tab), shift)
        weeksInRange == SelectSeq(weeks, LAMBDA w : InRange(w, cutoff))
        cached == [i \in DOMAIN sums |->
                      CHOOSE w \in {weeks[j] : j \in DOMAIN weeks} :
                          w.week_start = sums[i].key]
    IN  IF Len(weeksInRange) = 0 THEN [kind |-> "nodata"]
        ELSE [kind |-> "aggregate",
              merged |-> MergeWeeks(EmptyMerged,
                                    SelectSeq(cached, LAMBDA w : InRange(w, cutoff)),
                                    sums),
              rangeStart |-> weeksInRange[Len(weeksInRange)].week_start,
              rangeEnd |-> weeksInRange[1].week_end]

\* renderTab(tab) at instant t in a zone whose offset changed by `shift`
\* over the lookback, with allWeeks = weeks and allSummaries = sums: what the
\* page then shows.
renderTab(tab, weeks, sums, t, shift) ==
    LET cutoff == Cutoff(t, ParseInt(tab), shift)
        weeksInRange == SelectSeq(weeks, LAMBDA w : InRange(w, cutoff))
    IN  IF Len(weeksInRange) = 0 THEN [kind |-> "nodata"]
        ELSE [kind |-> "aggregate",
              merged |-> MergeWeeks(EmptyMerged, weeksInRange, sums),
              rangeStart |-> weeksInRange[Len(weeksInRange)].week_start,
              rangeEnd |-> weeksInRange[1].week_end]

NoSummaries == <<>>

NeverRendered == [now |-> 0, shift |-> 0, settled |-> FALSE]

\* The instants the clock is read at: a quarter of an hour after the UTC
\* midnight that ends a week, and the midnight a week later.
Instants == {DateOf(35) + 1, DateOf(42)}

\* The parsing variables are not used by the page.
ParseIdle == input = "" /\ output = <<>> /\ phase = "idle"

\* Lines 12-19 and the synchronous start of init(): the listener is
\* registered and the index is being fetched.
Init ==
    /\ pc = "fetching"
    /\ allWeeks = <<>>
    /\ allSummaries = NoSummaries
    /\ activeTab = "7"
    /\ loads = <<>>
    /\ now \in Instants
    /\ view = [kind |-> "blank"]
    /\ lastRender = NeverRendered
    /\ ParseIdle

\* Lines 26-35: the fetch of the index fails, answers not ok, or does not decode.
IndexFails ==
    /\ pc = "fetching"
    /\ pc' = "failed"
    /\ view' = [kind |-> "error"]
    /\ UNCHANGED <<allWeeks, allSummaries, activeTab, loads, now, lastRender>>
    /\ UNCHANGED parseVars

\* Lines 26-43: the index arrives; init sorts it and, unless it is empty,
\* calls loadSummary for every week.
IndexLoads ==
    /\ pc = "fetching"
    /\ \E idx \in Indexes :
          /\ allWeeks' = SortNewestFirst(idx)
          /\ IF idx = <<>>
             THEN /\ pc' = "empty"
                  /\ view' = [kind |-> "empty"]
                  /\ loads' = loads
             ELSE /\ pc' = "loading"
                  /\ view' = view
                  /\ loads' = [i \in 1..Len(idx) |-> "pending"]
    /\ UNCHANGED <<allSummaries, activeTab, now, lastRender>>
    /\ UNCHANGED parseVars

\* allSummaries[week.week_start] = await resp.json()  (line 52)
StoreSummary(sums, week, data) ==
    IF week.week_start \in Keys(sums)
    THEN [i \in DOMAIN sums |->
             IF sums[i].key = week.week_start
             THEN [key |-> week.week_start, data |-> data]
             ELSE sums[i]]
    ELSE Append(sums, [key |-> week.week_start, data |-> data])

\* Lines 48-56 for allWeeks[i], and lines 43-45 when it is the last to
\* settle: Promise.all resolves and init renders the active tab.
loadSummary(i, ok) ==
    /\ pc = "loading"
    /\ loads[i] = "pending"
    /\ loads' = [loads EXCEPT ![i] = IF ok THEN "ok" ELSE "failed"]
    /\ allSummaries' = IF ok THEN StoreSummary(allSummaries, allWeeks[i],
                                                ServerDoc(allWeeks[i].file))
                       ELSE allSummaries
    /\ IF \A j \in 1..Len(loads) : j # i => loads[j] # "pending"
       THEN /\ pc' = "done"
            /\ \E shift \in ZoneShifts :
                  /\ view' = renderTab(activeTab, allWeeks, allSummaries', now, shift)
                  /\ lastRender' = [now |-> now, shift |-> shift, settled |-> TRUE]
       ELSE UNCHANGED <<pc, view, lastRender>>
    /\ UNCHANGED <<allWeeks, activeTab, now>>
    /\ UNCHANGED parseVars

LoadSettles == \E i \in 1..Len(loads), ok \in BOOLEAN : loadSummary(i, ok)

\* Lines 59-70, a click on the tab `tab` that is not the active one.
onTabClick(tab) ==
    /\ tab # activeTab
    /\ activeTab' = tab
    /\ \E shift \in ZoneShifts :
          /\ view' = renderTab(tab, allWeeks, allSummaries, now, shift)
          /\ lastRender' = [now |-> now, shift |-> shift, settled |-> pc = "done"]
    /\ UNCHANGED <<pc, allWeeks, allSummaries, loads, now>>
    /\ UNCHANGED parseVars

TabClicked == \E tab \in Tabs : onTabClick(tab)

\* Lines 60-63: a click outside the tabs, or on the active tab, changes nothing.
ClickIgnored == UNCHANGED vars

\* Time passes between two steps of the page: new Date() of line 75 reads a
\* later instant.
Tick ==
    /\ \E t \in Instants : t > now /\ now' = t
    /\ UNCHANGED <<pc, allWeeks, allSummaries, activeTab, loads, view, lastRender>>
    /\ UNCHANGED parseVars

Next == IndexFails \/ IndexLoads \/ LoadSettles \/ TabClicked \/ ClickIgnored \/ Tick

Spec == Init /\ [][Next]_vars

\* ------------------------------------------------------------------------
\* Claims about the page
\* ------------------------------------------------------------------------

\* The cutoff as the claims state it: the instant the shown render read,
\* less the lookback of the active tab in days of 24 hours.
StatedCutoff == lastRender.now - ParseInt(activeTab) * QuartersPerDay

\* The cutoff of the render the page shows: the instant that render read,
\* moved back by the lookback of the active tab in calendar days of the
\* local time zone.
ShownCutoff == StatedCutoff + lastRender.shift

\* The index is one of the data model: a week is identified by its
\* weekStart, no two weeks of allWeeks share one.
DistinctStarts ==
    \A i, j \in 1..Len(allWeeks) :
        allWeeks[i].week_start = allWeeks[j].week_start => i = j

\* weekEnd >= cutoff, for the week at position i of allWeeks.
InWindow(i) == allWeeks[i].week_end * QuartersPerDay >= ShownCutoff

\* The sum of noteCount (a missing note_count counting as 0) over the
\* positions i..Len(allWeeks) of allWeeks that `counted` holds.
RECURSIVE SumNotes(_, _)
SumNotes(i, counted) ==
    IF i > Len(allWeeks) THEN 0
    ELSE (IF i \in counted
          THEN (IF "note_count" \in DOMAIN allWeeks[i] THEN allWeeks[i].note_count ELSE 0)
          ELSE 0) + SumNotes(i + 1, counted)

WindowWeeks == {i \in 1..Len(allWeeks) : InWindow(i)}

\* The weeks of the window whose load succeeded with a document other than
\* null.
LoadedWindowWeeks ==
    {i \in WindowWeeks :
        loads[i] = "ok" /\ ServerDoc(allWeeks[i].file).type # "null"}

\* The weeks with weekEnd >= cutoff, for cutoff = now - lookbackDays.
StatedWindowWeeks ==
    {i \in 1..Len(allWeeks) : allWeeks[i].week_end * QuartersPerDay >= StatedCutoff}

\* C1 as stated: for an index of weeks identified by their weekStart, once
\* every load has settled, whatever its outcome, the note total renderTab
\* shows is the sum of noteCount over exactly the weeks with
\* weekEnd >= cutoff, where cutoff = now - lookbackDays.
C1_TotalOverWindow ==
    (DistinctStarts /\ pc = "done" /\ view.kind = "aggregate")
        => view.merged.noteCount = SumNotes(1, StatedWindowWeeks)

\* C1 amended: for an index of weeks identified by their weekStart, once
\* every load has settled, the total renderTab shows is the sum of
\* noteCount over exactly the weeks with weekEnd >= cutoff whose load
\* succeeded with a document other than null, where cutoff is the
\* instant of the render moved back by the lookback in calendar days of the
\* local time zone; a week whose load failed adds nothing.
C1_TotalOverLoadedWindow ==
    (DistinctStarts /\ pc = "done" /\ view.kind = "aggregate")
        => view.merged.noteCount = SumNotes(1, LoadedWindowWeeks)

\* C1's case: all loads settled and a total is shown, computed in a zone
\* whose offset changed over the lookback; a week of the window with a note
\* count failed to load and another one loaded.
C1_Witness ==
    /\ DistinctStarts /\ pc = "done" /\ view.kind = "aggregate"
    /\ lastRender.shift # 0
    /\ view.merged.noteCount > 0
    /\ \E i \in WindowWeeks :
          /\ loads[i] = "failed"
          /\ "note_count" \in DOMAIN allWeeks[i]

\* The aggregate the per-week outcomes determine: over the weeks of the
\* window from position i on, newest first, the lists of every week whose
\* load succeeded with a document, appended in turn, and their note counts.
RECURSIVE ExpectedMerged(_, _)
ExpectedMerged(i, acc) ==
    IF i > Len(allWeeks) THEN acc
    ELSE LET data == ServerDoc(allWeeks[i].file)
             text == IF "summary_markdown" \in DOMAIN data /\ data.summary_markdown # ""
                     THEN data.summary_markdown
                     ELSE IF "raw_summary" \in DOMAIN data /\ data.raw_summary # ""
                     THEN data.raw_summary
                     ELSE ""
             lists == SectionsOf(text)
         IN  IF InWindow(i) /\ loads[i] = "ok" /\ data.type # "null"
             THEN ExpectedMerged(i + 1,
                     [insights |-> acc.insights \o lists.insights,
                      quotes |-> acc.quotes \o lists.quotes,
                      themes |-> acc.themes \o lists.themes,
                      frictions |-> acc.frictions \o lists.frictions,
                      ideas |-> acc.ideas \o lists.ideas,
                      noteCount |-> acc.noteCount + SumNotes(i, {i}),
                      meetingCount |-> 0])
             ELSE ExpectedMerged(i + 1, acc)

\* C2: for an index of weeks identified by their weekStart, the aggregate
\* rendered after all loads have settled is the one the week sequence and
\* the load outcomes determine, whatever order the loads
\* completed in: per kind, the weeks' lists in newest-first order, and the
\* note total of the weeks that loaded.
C2_AggregateFromOutcomes ==
    (DistinctStarts /\ pc = "done" /\ view.kind = "aggregate")
        => view.merged = ExpectedMerged(1, EmptyMerged)

\* C2's case: two weeks of the window loaded, the older one first, and the
\* aggregate holds the insights of both, the newer week's first.
C2_Witness ==
    /\ DistinctStarts /\ pc = "done" /\ view.kind = "aggregate"
    /\ Len(allWeeks) >= 2 /\ Len(allSummaries) >= 2
    /\ InWindow(1) /\ InWindow(2)
    /\ allSummaries[1].key = allWeeks[2].week_start
    /\ allSummaries[2].key = allWeeks[1].week_start
    /\ view.merged.insights = <<"Alpha", "Epsilon">>

\* allWeeks without the weeks whose load failed.
RECURSIVE WithoutFailed(_)
WithoutFailed(i) ==
    IF i > Len(allWeeks) THEN <<>>
    ELSE (IF loads[i] = "failed" THEN <<>> ELSE <<allWeeks[i]>>) \o WithoutFailed(i + 1)

\* C3: for an index of weeks identified by their weekStart, once every
\* load has settled, what renderTab shows (total, lists, date range, or the
\* no-data state) is what it would show with the weeks whose load failed
\* removed from the index.
C3_FailedWeekExcluded ==
    (DistinctStarts /\ pc = "done")
        => view = renderTab(activeTab, WithoutFailed(1), allSummaries,
                             lastRender.now, lastRender.shift)

\* C9: renderTab computes an aggregate only when the index is loaded and
\* every loadSummary call has settled.
C9_AggregateOnlyWhenSettled ==
    view.kind = "aggregate" => lastRender.settled

\* ------------------------------------------------------------------------
\* The parsing functions on their own
\* ------------------------------------------------------------------------

\* The page variables are not used by the parsing specifications.
PageIdle ==
    /\ pc = "idle" /\ allWeeks = <<>> /\ allSummaries = NoSummaries
    /\ activeTab = "7" /\ loads = <<>> /\ now = 0
    /\ view = [kind |-> "blank"] /\ lastRender = NeverRendered

\* The sections a document holds at most.
MaxSections == 2

\* Text that may stand before the first heading of a document.
LeadTexts ==
    {"", "Weekly report\n", "Key insights\n\nHello world\n",
     "Sources: notes\n> \"Hi\" - Bo\n"}

SectionPool ==
    {"## 1. Executive Summary\nAlpha\n\nBeta\n",
     "## 2. Notable Quotes\n> \"Ship weekly.\" ~ Dana, Acme Corp\n",
     "## 3. Main Themes\n- **Onboarding friction** ~ New users drop off early. Mentioned by: Dana, Lee.\n",
     "## 4. Friction Points\n- **Setup** - Slow start\n- plain friction item\n",
     "## 5. Content Ideas\n- **Guide** -- Write one. Mentioned by: Lee.\n- a titleless idea line\n",
     "## 6. Random Notes\nNothing here\n",
     "## 7. More Themes\n- **Pricing**: Unclear.\n",
     "## 8. Other Sources\n> \"Later.\" - Support team\n"}

RECURSIVE Concat(_)
Concat(q) == IF q = <<>> THEN "" ELSE Head(q) \o Concat(Tail(q))

\* The documents parseSummary is checked on.
ParseDocs ==
    {lead \o Concat(q) : lead \in LeadTexts, q \in SeqsOf(SectionPool, MaxSections)}

InitParse == PageIdle /\ input \in ParseDocs /\ output = <<>> /\ phase = "ready"

\* parseSummary(md), called on the input.
Parse ==
    /\ phase = "ready"
    /\ output' = parseSummary(input)
    /\ phase' = "parsed"
    /\ UNCHANGED input
    /\ UNCHANGED pageVars

SpecParse == InitParse /\ [][Parse]_vars

Kinds == {"insights", "quotes", "themes", "frictions", "ideas"}

\* The document without the text before its first heading (nothing is left
\* of a document that has no heading).
WithoutLeadingText(md) ==
    LET heads == {q \in 1..Len(md) : HeadingEnd(md, q) # 0}
    IN  IF heads = {} THEN ""
        ELSE From(md, CHOOSE q \in heads : \A r \in heads : q <= r)

\* C4: parseSummary discards the text before the first heading: the result
\* is that of the document with the leading text removed.
C4_LeadingTextDiscarded ==
    phase = "parsed" => output = parseSummary(WithoutLeadingText(input))

\* C5: in every record parseSummary emits, the optional fields are set:
\* a card has a title and a mentions that are strings, a quote an org.
C5_OptionalFieldsSet ==
    phase = "parsed" =>
        /\ \A kind \in {"themes", "frictions", "ideas"} :
              \A i \in 1..Len(output[kind]) :
                 /\ "title" \in DOMAIN output[kind][i]
                 /\ output[kind][i].title \in STRING
                 /\ "mentions" \in DOMAIN output[kind][i]
                 /\ output[kind][i].mentions \in STRING
        /\ \A i \in 1..Len(output.quotes) :
              /\ "org" \in DOMAIN output.quotes[i]
              /\ output.quotes[i].org \in STRING

\* The items of `kind` that the sections of a document yield, section by
\* section in document order.
RECURSIVE ItemsOfAll(_, _)
ItemsOfAll(sections, kind) ==
    IF sections = <<>> THEN <<>>
    ELSE ParseSection(EmptySections, Head(sections))[kind]
             \o ItemsOfAll(Tail(sections), kind)

\* C10: the list of each kind holds the items of all the sections of that
\* kind, in document order.
C10_AllSectionsCollected ==
    phase = "parsed" =>
        \A kind \in Kinds : output[kind] = ItemsOfAll(SplitHeadings(input, 1), kind)

\* ------------------------------------------------------------------------
\* Classification of one section by its heading
\* ------------------------------------------------------------------------

\* The words a heading is built from at most.
MaxHeadingWords == 2

HeadingWords ==
    {"Executive Summary", "Insights", "Notable Quotes", "Sources",
     "Main Themes", "Theme", "Misunderstandings", "Friction",
     "Content Ideas", "Random Notes"}

RECURSIVE JoinWords(_)
JoinWords(q) ==
    IF Len(q) = 1 THEN Head(q) ELSE Head(q) \o " " \o JoinWords(Tail(q))

Headings == {JoinWords(q) : q \in SeqsOf(HeadingWords, MaxHeadingWords) \ {<<>>}}

\* A body from which each of the five extractors takes something.
SectionBodies ==
    {"Para one\n\n> \"Q\" ~ Dana, Acme\n- **T** ~ B. Mentioned by: X."}

InitClassify ==
    /\ PageIdle
    /\ input \in {[heading |-> h, body |-> b] : h \in Headings, b \in SectionBodies}
    /\ output = <<>>
    /\ phase = "ready"

\* parseSummary on a document of one section.
Classify ==
    /\ phase = "ready"
    /\ output' = parseSummary("## 1. " \o input.heading \o "\n" \o input.body)
    /\ phase' = "parsed"
    /\ UNCHANGED input
    /\ UNCHANGED pageVars

SpecClassify == InitClassify /\ [][Classify]_vars

\* The keyword groups in their order of precedence.
KeywordGroups ==
    << [kind |-> "insights", keywords |-> {"executive summary", "insight"}],
       [kind |-> "quotes", keywords |-> {"notable quotes", "source"}],
       [kind |-> "themes", keywords |-> {"main themes", "theme"}],
       [kind |-> "frictions", keywords |-> {"misunderstanding", "friction"}],
       [kind |-> "ideas", keywords |-> {"content idea"}] >>

GroupMatches(heading, g) ==
    \E k \in KeywordGroups[g].keywords : Contains(ToLower(heading), k)

\* The first group the heading matches, 0 when it matches none.
FirstGroup(heading) ==
    LET gs == {g \in 1..Len(KeywordGroups) : GroupMatches(heading, g)}
    IN  IF gs = {} THEN 0 ELSE CHOOSE g \in gs : \A h \in gs : g <= h

\* What the extractor of a kind takes from a body.
Extracted(kind, body) ==
    CASE kind = "insights" -> InsightsOf(SplitStr(body, "\n\n"))
      [] kind = "quotes" -> parseQuotes(body)
      [] kind = "themes" -> parseBulletCards(body)
      [] kind = "frictions" -> parseFrictionCards(body)
      [] kind = "ideas" -> parseIdeaCards(body)

\* C6: a section goes to exactly the first keyword group its lower-cased
\* heading matches, in the order insights, quotes, themes, frictions, ideas;
\* no later group receives it and a heading that matches no group adds
\* nothing to any list.
C6_FirstMatchWins ==
    phase = "parsed" =>
        LET g == FirstGroup(input.heading)
        IN  \A kind \in Kinds :
               output[kind] =
                   IF g # 0 /\ KeywordGroups[g].kind = kind
                   THEN Extracted(kind, Trim(input.body))
                   ELSE <<>>

\* A heading that matches two groups was dispatched, and the list of the
\* first of them was filled.
C6_Witness ==
    /\ phase = "parsed"
    /\ \E g, h \in 1..Len(KeywordGroups) :
          /\ g < h
          /\ GroupMatches(input.heading, g)
          /\ GroupMatches(input.heading, h)
          /\ FirstGroup(input.heading) = g
          /\ output[KeywordGroups[g].kind] # <<>>
          /\ output[KeywordGroups[h].kind] = <<>>

\* ------------------------------------------------------------------------
\* Attribution of one quote
\* ------------------------------------------------------------------------

\* The tokens an attribution clause is built from at most.
MaxClauseTokens == 4

ClauseTokens == {"Dana", "Acme", ",", ", ", " team", " Team Member", "team"}

Clauses == {Concat(q) : q \in SeqsOf(ClauseTokens, MaxClauseTokens)}

QuoteText == "Ship weekly."

QuoteLine(sep, clause) == "> \"" \o QuoteText \o "\" " \o sep \o " " \o clause

InitQuotes ==
    /\ PageIdle
    /\ input \in {[sep |-> QuoteSeps[i], clause |-> c] :
                     i \in 1..Len(QuoteSeps), c \in Clauses}
    /\ output = <<>>
    /\ phase = "ready"

\* parseQuotes on one quote line.
ExtractQuote ==
    /\ phase = "ready"
    /\ output' = parseQuotes(QuoteLine(input.sep, input.clause))
    /\ phase' = "parsed"
    /\ UNCHANGED input
    /\ UNCHANGED pageVars

SpecQuotes == InitQuotes /\ [][ExtractQuote]_vars

\* The length of a final "team" or "team member" of the clause in any
\* letter case, 0 when the clause ends in neither.
TeamSuffixLen(c) ==
    LET l == ToLower(c)
        n == Len(c)
        j == SkipWsBack(l, n - 6)
    IN  IF EndsWith(l, "team") THEN 4
        ELSE IF /\ EndsWith(l, "member")
                /\ j < n - 6
                /\ j >= 4
                /\ SubSeq(l, j - 3, j) = "team"
        THEN n - j + 4
        ELSE 0

FirstComma(c) == IndexOf(c, ",")

\* C7 as stated: a clause that ends in "team member" or "team" gives the
\* text before the suffix as org and the full clause as attribution; a
\* clause that contains a comma gives the text before the first comma as
\* attribution and the text after it as org, and wins over the suffix;
\* otherwise attribution is the full clause and org is empty.
C7_AttributionParsed ==
    phase = "parsed" =>
        LET c == Trim(input.clause)
            k == TeamSuffixLen(c)
            j == FirstComma(c)
        IN  output =
              << IF j # 0
                 THEN [text |-> QuoteText,
                       attribution |-> SubSeq(c, 1, j - 1),
                       org |-> Trim(From(c, j + 1))]
                 ELSE IF k # 0
                 THEN [text |-> QuoteText,
                       attribution |-> c,
                       org |-> Trim(SubSeq(c, 1, Len(c) - k))]
                 ELSE [text |-> QuoteText, attribution |-> c, org |-> ""] >>

\* The first comma of the clause that is neither its first nor its last
\* character, 0 when there is none.
SplittingComma(c) ==
    LET js == {j \in 2..(Len(c) - 1) : At(c, j) = ","}
    IN  IF js = {} THEN 0 ELSE CHOOSE j \in js : \A r \in js : j <= r

\* The suffix counts only after whitespace that follows some text.
TeamSuffixApplies(c) ==
    /\ TeamSuffixLen(c) # 0
    /\ IsWs(At(c, Len(c) - TeamSuffixLen(c)))

\* C7, amended: the team suffix gives an org only when whitespace separates
\* it from text before it, and the comma split applies only at the first
\* comma that is neither the first nor the last character of the clause;
\* the comma split wins when both apply, and when neither applies the
\* attribution is the full clause and org is empty.
C7_AttributionParsedExact ==
    phase = "parsed" =>
        LET c == Trim(input.clause)
            k == TeamSuffixLen(c)
            j == SplittingComma(c)
        IN  output =
              << IF j # 0
                 THEN [text |-> QuoteText,
                       attribution |-> SubSeq(c, 1, j - 1),
                       org |-> Trim(From(c, j + 1))]
                 ELSE IF TeamSuffixApplies(c)
                 THEN [text |-> QuoteText,
                       attribution |-> c,
                       org |-> Trim(SubSeq(c, 1, Len(c) - k))]
                 ELSE [text |-> QuoteText, attribution |-> c, org |-> ""] >>

\* A clause with both a team suffix and a splitting comma was parsed, and
\* the comma split decided both fields.
C7_Witness ==
    /\ phase = "parsed"
    /\ TeamSuffixApplies(Trim(input.clause))
    /\ SplittingComma(Trim(input.clause)) # 0
    /\ Len(output) = 1
    /\ output[1].attribution = "Dana"
    /\ output[1].org = "Acme team"

\* ------------------------------------------------------------------------
\* One bullet card with a mention clause
\* ------------------------------------------------------------------------

CardTitles == {"Pricing", "Onboarding friction"}

CardBodies == {"Users are confused", "Too slow"}

CardMentions == {"Dana, Lee", "Acme"}

CardHeading(kind) == IF kind = "themes" THEN "Main Themes" ELSE "Content Ideas"

\* - **T** <sep> B. Mentioned by: X, Y.
CardFragment(c) ==
    "- **" \o c.title \o "** " \o c.sep \o " " \o c.body
        \o ". Mentioned by: " \o c.mentions \o "."

InitCards ==
    /\ PageIdle
    /\ input \in {[kind |-> kd, title |-> t, body |-> b, mentions |-> m,
                   sep |-> CardSeps[i]] :
                     kd \in {"themes", "ideas"}, t \in CardTitles,
                     b \in CardBodies, m \in CardMentions,
                     i \in 1..Len(CardSeps)}
    /\ output = <<>>
    /\ phase = "ready"

\* parseSummary on a section of one card.
ExtractCard ==
    /\ phase = "ready"
    /\ output' = parseSummary("## 3. " \o CardHeading(input.kind) \o "\n"
                                  \o CardFragment(input) \o "\n")
    /\ phase' = "parsed"
    /\ UNCHANGED input
    /\ UNCHANGED pageVars

SpecCards == InitCards /\ [][ExtractCard]_vars

\* C8: a fragment "- **T** <sep> B. Mentioned by: X, Y." of a themes or of
\* a content ideas section yields exactly one card with title T, body B and
\* mentions "X, Y".
C8_CardWithMentions ==
    phase = "parsed" =>
        output[input.kind] =
            << [title |-> input.title, body |-> input.body,
                mentions |-> input.mentions] >>

====
